---- MODULE Spec2Model ----
(***************************************************************************)
(* The Vylarc credit ledger: the user_credits and billing_records tables,  *)
(* the balance engine (src/app/services/credit_service.py) and the HTTP    *)
(* handlers that grant or read credits (src/app/routes/credits.py,         *)
(* src/app/routes/nexus.py).                                               *)
(*                                                                         *)
(* Every request runs in its own SQLAlchemy session (autoflush off) on a   *)
(* PostgreSQL database at READ COMMITTED: one action of the model is one   *)
(* SQL statement together with the Python code up to the next statement.   *)
(* A handler's db parameter is the Session its signature declares.         *)
(***************************************************************************)
EXTENDS Integers, Sequences, FiniteSets, TLC

(***************************************************************************)
(* Bounds of the model.                                                    *)
(***************************************************************************)
\* number of requests (calls) that may be in flight or finished
MaxReqs == 2
\* balance of the account that exists in the initial state
InitBalance == 3
\* number of rows of table chat_history
MaxMessages == 3
\* number of filenames in a project plan
MaxFiles == 2

Reqs == 1..MaxReqs

(***************************************************************************)
(* Values.                                                                 *)
(***************************************************************************)
\* Python None
None == "None"

\* the identities of the model (possible rows of table users), named by their lower-case
\* email
Users == {"a@x", "b@x", "c@x"}

\* table users before the first call; c@x is not registered yet
InitUsers == {"a@x", "b@x"}

\* table user_credits before the first call: a@x has its credit row; b@x is registered
\* and has none (user_id is a foreign key of user_credits, so the schema lets a user be
\* without a row: the state the handlers test for with "if not credits")
InitCredits ==
  [u \in Users |->
     IF u = "a@x" THEN [row |-> TRUE, balance |-> InitBalance]
                  ELSE [row |-> FALSE, balance |-> 0]]

\* emails a webhook payload may carry
Emails == {"a@x", "B@x", "nobody@x"}

\* str.lower() on the emails of the model
Lower(e) ==
  CASE e = "A@x" -> "a@x"
    [] e = "B@x" -> "b@x"
    [] OTHER -> e

\* settings.WORDPRESS_SECRET_KEY and the header values a caller may send
WORDPRESS_SECRET_KEY == "secret"
Secrets == {"secret", "wrong", None}

\* routes/credits.py SKU_TO_CREDITS
credits_SKU_TO_CREDITS ==
  [sku \in {"vylarc_2000_credits", "vylarc_10000_credits", "vylarc_30000_credits",
            "vylarc_launch_monthly", "vylarc_pro_monthly", "vylarc_dynamics_monthly"} |->
     CASE sku = "vylarc_2000_credits" -> 2000
       [] sku = "vylarc_10000_credits" -> 10000
       [] sku = "vylarc_30000_credits" -> 30000
       [] sku = "vylarc_launch_monthly" -> 5000
       [] sku = "vylarc_pro_monthly" -> 15000
       [] sku = "vylarc_dynamics_monthly" -> 50000]

\* routes/nexus.py SKU_TO_CREDITS: the keys in the dict's insertion order, and the values
nexus_SKU_KEYS ==
  <<"vylarc_pack_2000", "vylarc_pack_10000", "vylarc_pack_30000",
    "vylarc_sub_pro", "vylarc_sub_business", "vylarc_sub_enterprise">>

nexus_SKU_TO_CREDITS ==
  [sku \in {nexus_SKU_KEYS[i] : i \in DOMAIN nexus_SKU_KEYS} |->
     CASE sku = "vylarc_pack_2000" -> 2000
       [] sku = "vylarc_pack_10000" -> 10000
       [] sku = "vylarc_pack_30000" -> 30000
       [] sku = "vylarc_sub_pro" -> 10000
       [] sku = "vylarc_sub_business" -> 80000
       [] sku = "vylarc_sub_enterprise" -> 400000]

(***************************************************************************)
(* State.                                                                  *)
(***************************************************************************)
VARIABLES
  users,            \* committed table users: the set of registered identities
  user_credits,     \* committed table user_credits: user -> [row, balance]
  billing_records,  \* committed table billing_records: a set of rows
  row_lock,         \* user -> the request whose transaction holds the row of user_credits, or 0
  req,              \* request -> its inputs, its position, its session and its outcome
  chat_history,     \* committed table chat_history: its rows, in the order of their INSERT
  chat_call,        \* the last call of chat_service.get_recent_chat_history and its result
  canvas            \* canvas_service.run_coding_canvas_flow: its position, locals and calls

\* the ledger and its requests; the state of the services beside it
ledger_vars == <<users, user_credits, billing_records, row_lock, req>>
service_vars == <<chat_history, chat_call, canvas>>

vars ==
  <<users, user_credits, billing_records, row_lock, req, chat_history, chat_call, canvas>>

\* no order was read from a payload
NoOrder == [order_id |-> "none", items |-> <<>>]

\* a request slot before the call arrives
IdleReq ==
  [kind |-> "none", pc |-> "idle",
   user |-> "none", credits |-> 0, txn |-> "none", method |-> "none", cost |-> 0,
   \* what a webhook delivery carried, each from the statement of the handler that reads it
   secret |-> "none",      \* the secret header (None when the header is absent)
   email |-> "none",       \* the payer email, as sent
   sku |-> "none",         \* the SKU looked up in the catalog
   event |-> "none",       \* payload['event'] of a WooCommerce delivery
   order |-> NoOrder,      \* payload['order_id'] and payload['items'] of a new_order
   is_recurring |-> FALSE, \* PurchasePayload.is_recurring of a purchase that is granted
   looked_up |-> FALSE,    \* the SELECT of the user by email was executed
   \* a metered feature request
   debit_called |-> FALSE, \* check_and_deduct_credits was called
   worked |-> FALSE,       \* the chargeable call to the outside service was made
   \* session state (the open transaction and the identity map)
   pending |-> FALSE,      \* a BillingRecord is in session.new (db.add, not flushed)
   flushed |-> FALSE,      \* the BillingRecord is INSERTed in the open transaction
   inserted_row |-> FALSE, \* a UserCredits row is INSERTed in the open transaction
   wrote |-> FALSE,        \* an UPDATE of balance is in the open transaction
   tx_balance |-> 0,       \* the value that UPDATE wrote
   loaded |-> 0,           \* credits.balance as the SELECT loaded it
   \* outcome
   found |-> "unknown",    \* what the SELECT of the credit row returned: "row" / "norow"
   committed |-> FALSE,    \* db.commit() returned
   exc |-> "none",         \* the exception that ended the call, if any
   status |-> "none",      \* HTTP status of the response ("raised" for an engine call)
   ret |-> 0,              \* the balance a balance read returned
   \* history: another call on the same account was in flight when this one ran its SELECT
   overlapped |-> FALSE]

\* no call of get_recent_chat_history was made yet
NoCall ==
  [called |-> FALSE, user_id |-> "none", limit |-> 0, thread_id |-> None,
   raised |-> "none", returned |-> <<>>]

\* run_coding_canvas_flow before it is called: no local is bound, no call was made
IdleCanvas ==
  [pc |-> "idle", prompt |-> "none", research_summary |-> "none", file_list |-> <<>>,
   next_file |-> 0, files |-> "none", exc |-> "none", result |-> "none", calls |-> <<>>]

Init ==
  /\ users = InitUsers
  /\ user_credits = InitCredits
  /\ billing_records = {}
  /\ row_lock = [u \in Users |-> 0]
  /\ req = [r \in Reqs |-> IdleReq]
  /\ chat_history = <<>>
  /\ chat_call = NoCall
  /\ canvas = IdleCanvas

\* another call on account u is between its arrival and its end
InFlightOn(r, u) ==
  \E q \in Reqs \ {r} : req[q].pc \notin {"idle", "done"} /\ req[q].user = u

\* the r-th call arrives after the (r-1)-th
CanArrive(r) ==
  /\ req[r].pc = "idle"
  /\ r > 1 => req[r - 1].pc # "idle"

(***************************************************************************)
(* The session: SQLAlchemy Session over one PostgreSQL transaction.        *)
(***************************************************************************)
\* the BillingRecord that request r builds
RecordOf(r) ==
  [id |-> r, user_id |-> req[r].user, credits_added |-> req[r].credits,
   payment_method |-> req[r].method, transaction_id |-> req[r].txn]

\* a lock on the whole table: the statement waits while any row is held
RowFree_any_row(r, u) == \A v \in Users : row_lock[v] \in {0, r}

\* SELECT ... FOR UPDATE of the row of user u (and an INSERT that meets u's uncommitted
\* row) goes on when no other transaction holds that row; the rows of other users do not
\* matter
RowFree(r, u) == row_lock[u] \in {0, r}

\* the locks of r's transaction are released when it ends
ReleaseLocks(r) == [u \in Users |-> IF row_lock[u] = r THEN 0 ELSE row_lock[u]]

\* the session fields after the transaction ended
ClearSession(q) ==
  [q EXCEPT !.pending = FALSE, !.flushed = FALSE, !.inserted_row = FALSE,
            !.wrote = FALSE, !.tx_balance = 0, !.loaded = 0]

\* a commit that keeps one billing record per user: the new record takes the place of the
\* user's earlier ones
CommitTables_replacing_records(r) ==
  /\ billing_records' =
       IF req[r].pending \/ req[r].flushed
       THEN {b \in billing_records : b.user_id # req[r].user} \cup {RecordOf(r)}
       ELSE billing_records
  /\ user_credits' =
       IF req[r].wrote
       THEN [user_credits EXCEPT ![req[r].user] = [row |-> TRUE, balance |-> req[r].tx_balance]]
       ELSE IF req[r].inserted_row
       THEN [user_credits EXCEPT ![req[r].user] = [row |-> TRUE, balance |-> 0]]
       ELSE user_credits
  /\ row_lock' = ReleaseLocks(r)
  /\ UNCHANGED <<users, service_vars>>

\* db.commit(): flush session.new, then COMMIT: the transaction's writes become visible
CommitTables(r) ==
  /\ billing_records' =
       IF req[r].pending \/ req[r].flushed
       THEN billing_records \cup {RecordOf(r)} ELSE billing_records
  /\ user_credits' =
       IF req[r].wrote
       THEN [user_credits EXCEPT ![req[r].user] = [row |-> TRUE, balance |-> req[r].tx_balance]]
       ELSE IF req[r].inserted_row
       THEN [user_credits EXCEPT ![req[r].user] = [row |-> TRUE, balance |-> 0]]
       ELSE user_credits
  /\ row_lock' = ReleaseLocks(r)
  /\ UNCHANGED <<users, service_vars>>

\* a rollback that leaves the transaction's row locks in place
RollbackTables_keeps_locks(r) ==
  UNCHANGED <<users, billing_records, user_credits, row_lock, service_vars>>

\* db.rollback() (and db.close() on an open transaction): the writes are discarded
RollbackTables(r) ==
  /\ UNCHANGED <<users, billing_records, user_credits, service_vars>>
  /\ row_lock' = ReleaseLocks(r)

\* the call ends with an HTTP response (or, for an engine call, by raising)
Finish(q, status, exc) ==
  [ClearSession(q) EXCEPT !.pc = "done", !.status = status, !.exc = exc]

(***************************************************************************)
(* Inputs of the calls.                                                    *)
(***************************************************************************)
\* POST /credits/add: CreditAddRequest.credits_added is any int, transaction_id any string
AddCredits == {5, -5}
AddTxnIds == {"T1"}

\* POST /credits/grant_purchase: PurchasePayload.sku and .order_id
PurchaseSkus == {"vylarc_2000_credits", "vylarc_pack_2000", "mystery_sku"}
OrderIds == {"ORDER-1", "ORDER-2"}
\* the purchases the shop reports: a one-off purchase and a subscription renewal
\* (each delivery of an order carries the same order_id and is_recurring)
PurchaseOrders ==
  { [order_id |-> "ORDER-1", is_recurring |-> FALSE],
    [order_id |-> "ORDER-2", is_recurring |-> TRUE] }

(***************************************************************************)
(* routes/credits.py: grant_credits_to_user, called by add_credits and by  *)
(* grant_credits_from_purchase.                                            *)
(***************************************************************************)
\* add_credits up to the first SQL statement of grant_credits_to_user: the payload is
\* taken as it is (any user id, any int, any transaction id)
add_credits(r) ==
  /\ CanArrive(r)
  /\ \E u \in users, c \in AddCredits, t \in AddTxnIds :
       req' = [req EXCEPT ![r] =
                 [@ EXCEPT !.kind = "add", !.pc = "routes_select", !.user = u,
                           !.credits = c, !.txn = t, !.method = "Google Play"]]
  /\ UNCHANGED <<users, user_credits, billing_records, row_lock, service_vars>>

\* a check that only rejects an absent header: if not x_wordpress_secret
purchase_secret_invalid_when_missing(secret) == secret = None

\* if not x_wordpress_secret or x_wordpress_secret != settings.WORDPRESS_SECRET_KEY
purchase_secret_invalid(secret) == secret = None \/ secret # WORDPRESS_SECRET_KEY

\* an unknown SKU answered with an error instead
purchase_sku_ignored_as_error(q) == Finish(q, "404", "HTTPException")

\* the answer to a SKU that SKU_TO_CREDITS.get does not find: the message "... is not a
\* Vylarc credit product. No credits added.", HTTP 200
purchase_sku_ignored(q) == Finish(q, "200", "none")

\* grant_credits_from_purchase up to the first SQL statement of grant_credits_to_user:
\* the secret check, the user lookup by lower-cased email, the SKU lookup
grant_credits_from_purchase(r) ==
  /\ CanArrive(r)
  /\ \E secret \in Secrets :
       LET q == [req[r] EXCEPT !.kind = "purchase", !.secret = secret] IN
       IF purchase_secret_invalid(secret)
       THEN req' = [req EXCEPT ![r] = Finish(q, "403", "HTTPException")]
       ELSE \E email \in Emails :
         LET q1 == [q EXCEPT !.email = email, !.looked_up = TRUE] IN
         IF Lower(email) \notin users
         THEN req' = [req EXCEPT ![r] = Finish(q1, "404", "HTTPException")]
         ELSE \E sku \in PurchaseSkus :
           LET q2 == [q1 EXCEPT !.user = Lower(email), !.sku = sku] IN
           IF sku \notin DOMAIN credits_SKU_TO_CREDITS
           THEN req' = [req EXCEPT ![r] = purchase_sku_ignored(q2)]
           ELSE \E order \in PurchaseOrders :
             req' = [req EXCEPT ![r] =
                       [q2 EXCEPT !.pc = "routes_select",
                                  !.is_recurring = order.is_recurring,
                                  !.credits = credits_SKU_TO_CREDITS[sku],
                                  !.txn = order.order_id,
                                  !.method = "WooCommerce"]]
  /\ UNCHANGED <<users, user_credits, billing_records, row_lock, service_vars>>

\* routes_grant_select with a plain SELECT in place of SELECT ... FOR UPDATE: it neither
\* waits for the row nor holds it
routes_grant_select_unlocked(r) ==
  /\ req[r].pc = "routes_select"
  /\ LET u == req[r].user IN
     IF user_credits[u].row
     THEN /\ req' = [req EXCEPT ![r] =
                       [@ EXCEPT !.pc = "routes_update", !.pending = TRUE,
                                 !.found = "row", !.loaded = user_credits[u].balance,
                                 !.overlapped = InFlightOn(r, u)]]
          /\ UNCHANGED <<users, user_credits, billing_records, row_lock, service_vars>>
     ELSE /\ req' = [req EXCEPT ![r] =
                       Finish([@ EXCEPT !.found = "norow"], "500", "HTTPException")]
          /\ RollbackTables(r)

\* routes_grant_select whose "no row" branch neither rolls back nor returns False: the
\* route goes on to db.commit() with the billing record still in the session
routes_grant_select_no_rollback(r) ==
  /\ req[r].pc = "routes_select"
  /\ LET u == req[r].user IN
     IF user_credits[u].row
     THEN /\ RowFree(r, u)
          /\ row_lock' = [row_lock EXCEPT ![u] = r]
          /\ req' = [req EXCEPT ![r] =
                       [@ EXCEPT !.pc = "routes_update", !.pending = TRUE,
                                 !.found = "row", !.loaded = user_credits[u].balance,
                                 !.overlapped = InFlightOn(r, u)]]
          /\ UNCHANGED <<users, user_credits, billing_records, service_vars>>
     ELSE /\ req' = [req EXCEPT ![r] =
                       [@ EXCEPT !.pc = "routes_commit", !.pending = TRUE,
                                 !.found = "norow"]]
          /\ UNCHANGED <<users, user_credits, billing_records, row_lock, service_vars>>

\* grant_credits_to_user: db.add(new_record), then SELECT ... FOR UPDATE of the credit row.
\* The SELECT waits while another transaction holds the row. No row: db.rollback() and
\* return False; the route raises HTTPException(404) inside its try, its except Exception
\* catches it, rolls back and raises HTTPException(500).
routes_grant_select(r) ==
  /\ req[r].pc = "routes_select"
  /\ LET u == req[r].user IN
     IF user_credits[u].row
     THEN /\ RowFree(r, u)
          /\ row_lock' = [row_lock EXCEPT ![u] = r]
          /\ req' = [req EXCEPT ![r] =
                       [@ EXCEPT !.pc = "routes_update", !.pending = TRUE,
                                 !.found = "row", !.loaded = user_credits[u].balance,
                                 !.overlapped = InFlightOn(r, u)]]
          /\ UNCHANGED <<users, user_credits, billing_records, service_vars>>
     ELSE /\ req' = [req EXCEPT ![r] =
                       Finish([@ EXCEPT !.found = "norow"], "500", "HTTPException")]
          /\ RollbackTables(r)

\* grant_credits_to_user: new_balance = credits.balance + credits_to_add, then the UPDATE;
\* it returns True and the route goes on to db.commit()
routes_grant_update(r) ==
  /\ req[r].pc = "routes_update"
  /\ req' = [req EXCEPT ![r] =
               [@ EXCEPT !.pc = "routes_commit", !.wrote = TRUE,
                         !.tx_balance = req[r].loaded + req[r].credits]]
  /\ UNCHANGED <<users, user_credits, billing_records, row_lock, service_vars>>

\* the route's db.commit(); grant_credits_from_purchase then answers 200, add_credits
\* goes on to read the new record back
routes_commit(r) ==
  /\ req[r].pc = "routes_commit"
  /\ CommitTables(r)
  /\ req' = [req EXCEPT ![r] =
               IF req[r].kind = "add"
               THEN [ClearSession(@) EXCEPT !.pc = "add_requery", !.committed = TRUE]
               ELSE Finish([@ EXCEPT !.committed = TRUE], "200", "none")]

\* add_credits after the commit: the query for the new record, which finds it, and the
\* response built from it
add_requery(r) ==
  /\ req[r].pc = "add_requery"
  /\ \E b \in billing_records :
       b.user_id = req[r].user /\ b.transaction_id = req[r].txn
  /\ req' = [req EXCEPT ![r] = Finish(@, "200", "none")]
  /\ RollbackTables(r)

\* any SQL statement of the routes may fail (connection lost, statement timeout): the
\* exception reaches the route's except Exception, which rolls back and raises
\* HTTPException(500)
routes_db_error(r) ==
  /\ req[r].pc \in {"routes_select", "routes_update", "routes_commit", "add_requery"}
  /\ req' = [req EXCEPT ![r] = Finish(@, "500", "DBAPIError")]
  /\ RollbackTables(r)

(***************************************************************************)
(* routes/nexus.py: woocommerce_webhook, and the engine's                  *)
(* grant_credits_to_user (services/credit_service.py) that it calls.       *)
(***************************************************************************)
\* payload['event'], payload['customer_email'] (None when the key is absent)
WooEvents == {"new_order", "order_refunded"}
WooEmails == Emails \cup {"c@x", None}
\* f"wc_{order_id}"
WcTransactionId(order) ==
  CASE order = "1" -> "wc_1"
    [] order = "2" -> "wc_2"
    [] order = "3" -> "wc_3"

\* the orders the shop may deliver, each [order_id: payload['order_id'], items:
\* payload['items']]. Of an item's name the handler observes only which catalog keys it
\* contains (key in item_name), so an item is [contains: the keys, quantity: int]
WooOrders ==
  { [order_id |-> "1",
     items |-> <<[contains |-> {"vylarc_pack_2000"}, quantity |-> 1]>>],
    [order_id |-> "2",
     items |-> <<[contains |-> {"vylarc_sub_pro", "vylarc_sub_business"}, quantity |-> 2],
                 [contains |-> {}, quantity |-> 1]>>],
    [order_id |-> "3", items |-> <<>>],
    [order_id |-> "3",
     items |-> <<[contains |-> {"vylarc_pack_2000"}, quantity |-> -1]>>] }

\* a loop without the break: the last catalog key the item name contains is kept
MatchedSku_last_key(item, i) ==
  LET hits == {j \in i..Len(nexus_SKU_KEYS) : nexus_SKU_KEYS[j] \in item.contains} IN
  IF hits = {} THEN None
  ELSE nexus_SKU_KEYS[CHOOSE j \in hits : \A k \in hits : k <= j]

\* for key in SKU_TO_CREDITS: if key in item_name: matched_sku = key; break
RECURSIVE MatchedSku(_, _)
MatchedSku(item, i) ==
  IF i > Len(nexus_SKU_KEYS) THEN None
  ELSE IF nexus_SKU_KEYS[i] \in item.contains THEN nexus_SKU_KEYS[i]
  ELSE MatchedSku(item, i + 1)

\* the loop over items: credits_granted += SKU_TO_CREDITS[matched_sku] * quantity
RECURSIVE CreditsGranted(_)
CreditsGranted(items) ==
  IF items = <<>> THEN 0
  ELSE LET sku == MatchedSku(Head(items), 1) IN
       (IF sku = None THEN 0 ELSE nexus_SKU_TO_CREDITS[sku] * Head(items).quantity)
       + CreditsGranted(Tail(items))

\* the first catalog key that an item of the order matches, None when no item matches one
RECURSIVE FirstMatchedSku(_)
FirstMatchedSku(items) ==
  IF items = <<>> THEN None
  ELSE IF MatchedSku(Head(items), 1) # None THEN MatchedSku(Head(items), 1)
  ELSE FirstMatchedSku(Tail(items))

\* woocommerce_webhook up to the first SQL statement of the engine's grant
woocommerce_webhook(r) ==
  /\ CanArrive(r)
  /\ \E secret \in Secrets :
       LET q == [req[r] EXCEPT !.kind = "woo", !.secret = secret] IN
       IF secret # WORDPRESS_SECRET_KEY
       THEN req' = [req EXCEPT ![r] = Finish(q, "403", "HTTPException")]
       ELSE \E event \in WooEvents :
         IF event # "new_order"
         THEN req' = [req EXCEPT ![r] = Finish([q EXCEPT !.event = event], "200", "none")]
         ELSE \E email \in WooEmails :
           LET q1 == [q EXCEPT !.event = event, !.email = email, !.looked_up = TRUE] IN
           IF email = None
           THEN req' = [req EXCEPT ![r] =
                          Finish([q EXCEPT !.event = event, !.email = email],
                                 "500", "AttributeError")]
           ELSE IF Lower(email) \notin users
           THEN req' = [req EXCEPT ![r] = Finish(q1, "200", "none")]
           ELSE \E order \in WooOrders :
             LET items == order.items
                 q2 == [q1 EXCEPT !.user = Lower(email), !.sku = FirstMatchedSku(items),
                                  !.order = order,
                                  !.credits = CreditsGranted(items)]
             IN
             req' = [req EXCEPT ![r] =
               IF ~(CreditsGranted(items) > 0)
               THEN Finish(q2, "200", "none")
               ELSE [q2 EXCEPT !.pc = "service_select",
                               !.txn = WcTransactionId(order.order_id),
                               !.method = "WooCommerce"]]
  /\ UNCHANGED <<users, user_credits, billing_records, row_lock, service_vars>>

\* credit_service.grant_credits_to_user: db.add(new_record), then SELECT ... FOR UPDATE of
\* the credit row, which waits while another transaction holds the row. No row (a row
\* another transaction inserted and has not committed is not seen, and locks nothing):
\* credits = UserCredits(balance=0); db.add(credits)
service_grant_select(r) ==
  /\ req[r].pc = "service_select"
  /\ LET u == req[r].user IN
     IF user_credits[u].row
     THEN /\ RowFree(r, u)
          /\ row_lock' = [row_lock EXCEPT ![u] = r]
          /\ req' = [req EXCEPT ![r] =
                       [@ EXCEPT !.pc = "service_update", !.pending = TRUE,
                                 !.found = "row", !.loaded = user_credits[u].balance,
                                 !.overlapped = InFlightOn(r, u)]]
          /\ UNCHANGED <<users, user_credits, billing_records, service_vars>>
     ELSE /\ req' = [req EXCEPT ![r] =
                       [@ EXCEPT !.pc = "service_flush", !.pending = TRUE,
                                 !.found = "norow"]]
          /\ UNCHANGED <<users, user_credits, billing_records, row_lock, service_vars>>

\* a flush on a table whose user_id is not unique: the INSERT of a second row for the
\* user goes through
service_grant_flush_no_unique(r) ==
  /\ req[r].pc = "service_flush"
  /\ LET u == req[r].user IN
     /\ RowFree(r, u)
     /\ row_lock' = [row_lock EXCEPT ![u] = r]
     /\ req' = [req EXCEPT ![r] =
                  [@ EXCEPT !.pc = "service_update", !.pending = FALSE,
                            !.flushed = TRUE, !.inserted_row = TRUE, !.loaded = 0]]
     /\ UNCHANGED <<users, user_credits, billing_records, service_vars>>

\* db.flush(): INSERT of the billing record and of the new credit row. user_id is unique:
\* the INSERT waits while another transaction's uncommitted row has the same user_id, and
\* raises IntegrityError when a committed one has; the handler's except rolls back and
\* raises HTTPException(500)
service_grant_flush(r) ==
  /\ req[r].pc = "service_flush"
  /\ LET u == req[r].user IN
     IF user_credits[u].row
     THEN /\ req' = [req EXCEPT ![r] = Finish(@, "500", "IntegrityError")]
          /\ RollbackTables(r)
     ELSE /\ RowFree(r, u)
          /\ row_lock' = [row_lock EXCEPT ![u] = r]
          /\ req' = [req EXCEPT ![r] =
                       [@ EXCEPT !.pc = "service_update", !.pending = FALSE,
                                 !.flushed = TRUE, !.inserted_row = TRUE, !.loaded = 0]]
          /\ UNCHANGED <<users, user_credits, billing_records, service_vars>>

\* new_balance = credits.balance + credits_to_add, then the UPDATE; return True
service_grant_update(r) ==
  /\ req[r].pc = "service_update"
  /\ req' = [req EXCEPT ![r] =
               [@ EXCEPT !.pc = "service_commit", !.wrote = TRUE,
                         !.tx_balance = req[r].loaded + req[r].credits]]
  /\ UNCHANGED <<users, user_credits, billing_records, row_lock, service_vars>>

\* woocommerce_webhook: db.commit() after the grant, then {"status": "processed"}
woocommerce_commit(r) ==
  /\ req[r].pc = "service_commit"
  /\ CommitTables(r)
  /\ req' = [req EXCEPT ![r] = Finish([@ EXCEPT !.committed = TRUE], "200", "none")]

\* any SQL statement of the grant may fail: grant_credits_to_user logs and re-raises,
\* woocommerce_webhook rolls back and raises HTTPException(500)
service_db_error(r) ==
  /\ req[r].pc \in {"service_select", "service_flush", "service_update", "service_commit"}
  /\ req' = [req EXCEPT ![r] = Finish(@, "500", "DBAPIError")]
  /\ RollbackTables(r)

(***************************************************************************)
(* routes/credits.py: get_credit_balance.                                  *)
(***************************************************************************)
\* SELECT of the current user's credit row (no lock: it reads the committed row);
\* no row: HTTPException(404); otherwise the row is the response
get_credit_balance(r) ==
  /\ CanArrive(r)
  /\ \E u \in users :
       LET q == [req[r] EXCEPT !.kind = "balance", !.user = u] IN
       req' = [req EXCEPT ![r] =
         IF ~user_credits[u].row
         THEN Finish([q EXCEPT !.found = "norow"], "404", "HTTPException")
         ELSE Finish([q EXCEPT !.found = "row", !.ret = user_credits[u].balance],
                     "200", "none")]
  /\ UNCHANGED <<users, user_credits, billing_records, row_lock, service_vars>>

(***************************************************************************)
(* routes/auth.py: register_user, google_callback, read_users_me.          *)
(***************************************************************************)
\* UserCreate.email as sent: one address of a new identity, one of a registered identity
RegisterEmails == {"c@x", "A@x"}

\* register_user: User(email=user_in.email.lower()) with credits = UserCredits(balance=0),
\* db.add, db.commit(): the INSERT of the user and of its credit row and the COMMIT are
\* that one call. users.email is unique: IntegrityError, rollback, HTTP 409. Any other
\* failure: rollback, HTTP 500.
register_user(r) ==
  /\ CanArrive(r)
  /\ \E email \in RegisterEmails, db_fails \in BOOLEAN :
       LET u == Lower(email)
           q == [req[r] EXCEPT !.kind = "register", !.email = email]
       IN
       IF u \in users
       THEN /\ ~db_fails
            /\ req' = [req EXCEPT ![r] = Finish(q, "409", "IntegrityError")]
            /\ UNCHANGED <<users, user_credits>>
       ELSE IF db_fails
       THEN /\ req' = [req EXCEPT ![r] = Finish(q, "500", "DBAPIError")]
            /\ UNCHANGED <<users, user_credits>>
       ELSE /\ req' = [req EXCEPT ![r] =
                         Finish([q EXCEPT !.user = u, !.committed = TRUE], "201", "none")]
            /\ users' = users \cup {u}
            /\ user_credits' = [user_credits EXCEPT ![u] = [row |-> TRUE, balance |-> 0]]
  /\ UNCHANGED <<billing_records, row_lock, service_vars>>

\* what Google answers to the callback: the code is refused, or the id token names an
\* email
GoogleLogins == {"invalid_code", "c@x", "a@x"}

\* google_callback. A refused code: HTTP 400. A registered email: the user's oauth token
\* is stored, db.commit(), 200 (user.credits is not touched). An email that is not
\* registered: User(...) with credits = UserCredits(balance=0) is db.add()ed; the session
\* does not autoflush, so user.id (a column default, set at INSERT) is still None when
\* OAuthToken(user_id=user.id, ...) is built; db.commit() flushes the token with user_id
\* NULL, oauth_tokens.user_id is NOT NULL: IntegrityError, rollback, HTTP 500. Nothing of
\* the new user is committed.
google_callback(r) ==
  /\ CanArrive(r)
  /\ \E login \in GoogleLogins :
       LET q == [req[r] EXCEPT !.kind = "google"] IN
       req' = [req EXCEPT ![r] =
         IF login = "invalid_code" THEN Finish(q, "400", "HTTPException")
         ELSE IF Lower(login) \in users
         THEN Finish([q EXCEPT !.email = login, !.user = Lower(login)], "200", "none")
         ELSE Finish([q EXCEPT !.email = login], "500", "IntegrityError")]
  /\ UNCHANGED <<users, user_credits, billing_records, row_lock, service_vars>>

\* read_users_me: the SELECT of the user, then user.credits (a SELECT of the committed
\* credit row). A row: it is the response. No row: UserCredits(balance=0) is db.add()ed.
read_users_me(r) ==
  /\ CanArrive(r)
  /\ \E u \in users :
       LET q == [req[r] EXCEPT !.kind = "me", !.user = u] IN
       req' = [req EXCEPT ![r] =
         IF user_credits[u].row
         THEN Finish([q EXCEPT !.found = "row", !.ret = user_credits[u].balance],
                     "200", "none")
         ELSE [q EXCEPT !.pc = "me_commit", !.found = "norow"]]
  /\ UNCHANGED <<users, user_credits, billing_records, row_lock, service_vars>>

\* read_users_me: db.commit(), the INSERT of the credit row and the COMMIT in one call.
\* user_id is unique: the INSERT waits while another transaction's uncommitted row has the
\* same user_id, and raises IntegrityError when a committed one has; the handler catches
\* nothing, get_db closes the session and the answer is HTTP 500. Otherwise the row is
\* committed with balance 0 and is the response.
me_commit(r) ==
  /\ req[r].pc = "me_commit"
  /\ LET u == req[r].user IN
     IF user_credits[u].row
     THEN /\ req' = [req EXCEPT ![r] = Finish(@, "500", "IntegrityError")]
          /\ UNCHANGED user_credits
     ELSE /\ RowFree(r, u)
          /\ user_credits' = [user_credits EXCEPT ![u] = [row |-> TRUE, balance |-> 0]]
          /\ req' = [req EXCEPT ![r] = Finish([@ EXCEPT !.committed = TRUE], "200", "none")]
  /\ UNCHANGED <<users, billing_records, row_lock, service_vars>>

\* the statements of db.commit() may fail: the exception leaves the handler, get_db closes
\* the session, HTTP 500
me_db_error(r) ==
  /\ req[r].pc = "me_commit"
  /\ req' = [req EXCEPT ![r] = Finish(@, "500", "DBAPIError")]
  /\ UNCHANGED <<users, user_credits, billing_records, row_lock, service_vars>>

(***************************************************************************)
(* The metered feature handlers: routes/chat.py, routes/telephony.py,      *)
(* routes/files.py. None of them imports credit_service; they read and     *)
(* write neither user_credits nor billing_records.                         *)
(***************************************************************************)
\* the authenticated user of a metered request (Depends(get_current_user))
MeteredUsers == {"a@x"}

\* send_chat_message: the first statement of its try evaluates payload.thread_id, and
\* ChatRequest (schemas/chat.py) declares message, history and voice_mode only:
\* AttributeError, which the handler's except Exception answers with db.rollback() and
\* HTTP 500. The history is not read, ChatGPT is not called and no message is stored.
send_chat_message(r) ==
  /\ CanArrive(r)
  /\ \E u \in MeteredUsers :
       req' = [req EXCEPT ![r] =
                 Finish([@ EXCEPT !.kind = "chat", !.user = u], "500", "AttributeError")]
  /\ UNCHANGED <<users, user_credits, billing_records, row_lock, service_vars>>

\* what initiate_call meets: no Twilio keys stored for the user; keys and Twilio accepts
\* the call; keys and Twilio answers with a status >= 400
TwilioCases == {"no_keys", "accepted", "refused"}

\* initiate_call: without keys HTTPException(400), raised before the try. Otherwise
\* requests.post to Twilio; on a status >= 400 the HTTPException(400) raised inside the
\* try is caught by its except Exception and answered with HTTP 500.
initiate_call(r) ==
  /\ CanArrive(r)
  /\ \E u \in MeteredUsers, case \in TwilioCases :
       LET q == [req[r] EXCEPT !.kind = "call", !.user = u] IN
       req' = [req EXCEPT ![r] =
                 IF case = "no_keys" THEN Finish(q, "400", "HTTPException")
                 ELSE IF case = "accepted"
                 THEN Finish([q EXCEPT !.worked = TRUE], "200", "none")
                 ELSE Finish([q EXCEPT !.worked = TRUE], "500", "HTTPException")]
  /\ UNCHANGED <<users, user_credits, billing_records, row_lock, service_vars>>

\* upload_file: the file is decoded and sent to Google Drive (a failure there is printed
\* and ignored), its FileUpload row is added and committed, 200.
upload_file(r) ==
  /\ CanArrive(r)
  /\ \E u \in MeteredUsers :
       req' = [req EXCEPT ![r] =
                 Finish([@ EXCEPT !.kind = "upload", !.user = u, !.worked = TRUE],
                        "200", "none")]
  /\ UNCHANGED <<users, user_credits, billing_records, row_lock, service_vars>>

(***************************************************************************)
(* services/credit_service.py: check_and_deduct_credits.                   *)
(***************************************************************************)
\* costs a caller may pass
DebitCosts == {-1, 0, InitBalance, InitBalance + 1}

\* the function with the name selectinload bound and its transaction committed: no row,
\* CreditException; cost 0, the row as it is; balance < cost, CreditException; otherwise
\* balance - cost is stored and returned
check_and_deduct_credits_selectinload_bound(r) ==
  /\ CanArrive(r)
  /\ \E u \in users, cost \in DebitCosts :
       LET q == [req[r] EXCEPT !.kind = "debit", !.user = u, !.cost = cost,
                               !.debit_called = TRUE]
           balance == user_credits[u].balance
       IN
       IF ~user_credits[u].row
       THEN /\ req' = [req EXCEPT ![r] = Finish(q, "402", "CreditException")]
            /\ UNCHANGED user_credits
       ELSE IF cost = 0
       THEN /\ req' = [req EXCEPT ![r] = Finish([q EXCEPT !.ret = balance], "raised", "none")]
            /\ UNCHANGED user_credits
       ELSE IF balance < cost
       THEN /\ req' = [req EXCEPT ![r] =
                         Finish([q EXCEPT !.ret = balance], "402", "CreditException")]
            /\ UNCHANGED user_credits
       ELSE /\ row_lock[u] = 0
            /\ req' = [req EXCEPT ![r] =
                         Finish([q EXCEPT !.ret = balance - cost], "raised", "none")]
            /\ user_credits' = [user_credits EXCEPT ![u].balance = balance - cost]
  /\ UNCHANGED <<users, billing_records, row_lock, service_vars>>

\* The first statement builds select(UserCredits).where(...).options(selectinload(...)).
\* The module imports Session, select, update, HTTPException, status, models and
\* get_settings: the name selectinload is bound nowhere, so evaluating the argument
\* raises NameError before db.scalar is called. No statement reaches the database: no
\* row is read, locked or written, and nothing is logged.
check_and_deduct_credits(r) ==
  /\ CanArrive(r)
  /\ \E u \in users, cost \in DebitCosts :
       req' = [req EXCEPT ![r] =
                 Finish([@ EXCEPT !.kind = "debit", !.user = u, !.cost = cost,
                                  !.debit_called = TRUE],
                        "raised", "NameError")]
  /\ UNCHANGED <<users, user_credits, billing_records, row_lock, service_vars>>

(***************************************************************************)
(* services/chat_service.py: get_recent_chat_history.                      *)
(***************************************************************************)
\* the user whose history is asked for, and another user with rows in the table
ChatUser == "a@x"
OtherChatUser == "b@x"

\* ChatHistory.role ("user" or "assistant"; the column takes any string) and the
\* thread_id column of table chat_history (NULL or a thread)
ChatRoles == {"user", "assistant", "system"}
ChatThreads == {None, "t1"}

\* the rows that may follow the rows of table t: id and message (the text, distinct per
\* row) are the row's number, the timestamp is that of the row before or later
NextChatRows(t) ==
  LET n == Len(t) + 1
      stamps == IF t = <<>> THEN {1} ELSE {t[Len(t)].timestamp, t[Len(t)].timestamp + 1}
  IN { [id |-> n, user_id |-> ChatUser, thread_id |-> th, role |-> ro, message |-> n,
        timestamp |-> ts] : th \in ChatThreads, ro \in ChatRoles, ts \in stamps }
     \cup
     { [id |-> n, user_id |-> OtherChatUser, thread_id |-> None, role |-> "user",
        message |-> n, timestamp |-> ts] : ts \in stamps }

\* the tables of exactly n rows, and of at most MaxMessages rows
RECURSIVE ChatTablesOfLen(_)
ChatTablesOfLen(n) ==
  IF n = 0 THEN {<<>>}
  ELSE UNION { {Append(t, row) : row \in NextChatRows(t)} : t \in ChatTablesOfLen(n - 1) }

ChatTables == UNION {ChatTablesOfLen(n) : n \in 0..MaxMessages}

\* q.order_by(desc(ChatHistory.timestamp)).limit(limit).all() on the rows of user_id:
\* the possible results, each a list of limit rows (all rows, when there are fewer),
\* newest first; rows of equal timestamp come in any order
QueryResults(table, user_id, limit) ==
  LET mine == {i \in DOMAIN table : table[i].user_id = user_id}
      k == IF limit < Cardinality(mine) THEN limit ELSE Cardinality(mine)
  IN { [n \in 1..k |-> table[f[n]]] :
         f \in { g \in [1..k -> mine] :
                   /\ \A m, n \in 1..k : m < n =>
                        /\ g[m] # g[n]
                        /\ table[g[m]].timestamp >= table[g[n]].timestamp
                   /\ \A n \in 1..k, i \in mine :
                        (\A m \in 1..k : g[m] # i)
                        => table[i].timestamp <= table[g[n]].timestamp } }

\* history_records.reverse()
reverse(records) == [n \in 1..Len(records) |-> records[Len(records) + 1 - n]]

\* the loop over history_records: a record whose role is "user" or "assistant" is
\* appended as {"role": record.role, "content": record.message}
RECURSIVE formatted_history(_)
formatted_history(records) ==
  IF records = <<>> THEN <<>>
  ELSE (IF Head(records).role \in {"user", "assistant"}
        THEN <<[role |-> Head(records).role, content |-> Head(records).message]>>
        ELSE <<>>)
       \o formatted_history(Tail(records))

\* get_recent_chat_history(db, user_id, limit, thread_id). With a thread_id the function
\* evaluates models.ChatHistory.thread_id, an attribute the class does not define
\* (models.py:131-140): AttributeError, caught by its except Exception, which returns [].
\* Without one it runs the query, reverses the result and formats it; a failing query
\* returns [] the same way.
get_recent_chat_history ==
  /\ \E limit \in 0..MaxMessages, thread_id \in ChatThreads, db_fails \in BOOLEAN :
       LET call == [called |-> TRUE, user_id |-> ChatUser, limit |-> limit,
                    thread_id |-> thread_id, raised |-> "none", returned |-> <<>>]
       IN
       IF thread_id # None
       THEN /\ ~db_fails
            /\ chat_call' = [call EXCEPT !.raised = "AttributeError"]
       ELSE IF db_fails
       THEN chat_call' = [call EXCEPT !.raised = "DBAPIError"]
       ELSE \E history_records \in QueryResults(chat_history, ChatUser, limit) :
              chat_call' =
                [call EXCEPT !.returned = formatted_history(reverse(history_records))]
  /\ UNCHANGED <<ledger_vars, chat_history, canvas>>

(***************************************************************************)
(* services/canvas_service.py: run_coding_canvas_flow. Each action is one  *)
(* call the flow makes together with the code up to the next call; canvas  *)
(* .calls records each call with its argument and the value it returned.   *)
(***************************************************************************)
\* the prompt; the texts the research step may return (the model's brief, or the static
\* message when OpenAI is not available); the contents a generation may return
CanvasPrompts == {"Build a snake game"}
CanvasSummaries == {"Use Pygame. Create a loop.", "External research is disabled"}
CanvasContents == {"print('Hello World')", "# Error generating content"}
CanvasFilenames == {"main.py", "game.py"}

\* what generate_project_structure may return: json.loads of the model's answer, a list
\* of filenames (possibly empty, possibly naming a file twice) or a JSON value that is no
\* list (a number)
RECURSIVE FileListsOfLen(_)
FileListsOfLen(n) ==
  IF n = 0 THEN {<<>>}
  ELSE {Append(l, f) : l \in FileListsOfLen(n - 1), f \in CanvasFilenames}

PlanResults ==
  {[is_list |-> TRUE, items |-> l] : l \in UNION {FileListsOfLen(n) : n \in 0..MaxFiles}}
  \cup {[is_list |-> FALSE, items |-> <<>>]}

\* a Python dict from filenames to contents: the value of a key, Absent for a key the
\* dict does not hold
Absent == "absent"
DictKeys == CanvasFilenames \cup {"README.md"}
EmptyDict == [f \in DictKeys |-> Absent]
Keys(files) == {f \in DictKeys : files[f] # Absent}

\* what analyze_and_fix_code(files) may return: files itself (no client, or the analysis
\* failed), or json.loads of the model's answer: the files corrected, or another object
AnalysisResults(files) ==
  { files,
    [f \in DictKeys |-> IF files[f] # Absent THEN "fixed" ELSE Absent],
    [f \in DictKeys |-> IF f = "README.md" THEN "fixed" ELSE Absent] }

\* files[filename] = content
SetItem(files, filename, content) == [files EXCEPT ![filename] = content]

\* step 1: perform_web_search(prompt) (a stub that returns []), then
\* summarize_search_results(prompt, search_results)
canvas_research ==
  /\ canvas.pc = "idle"
  /\ \E prompt \in CanvasPrompts, summary \in CanvasSummaries :
       canvas' = [canvas EXCEPT
                    !.pc = "plan", !.prompt = prompt, !.research_summary = summary,
                    !.calls = Append(@, [step |-> "research", arg |-> prompt,
                                         returned |-> summary])]
  /\ UNCHANGED <<ledger_vars, chat_history, chat_call>>

\* step 2: file_list = generate_project_structure(prompt, research_summary), then
\* len(file_list) for the log line: TypeError when file_list is a number, which ends the
\* flow; files = {}
canvas_plan ==
  /\ canvas.pc = "plan"
  /\ \E file_list \in PlanResults :
       LET call == [step |-> "plan",
                    arg |-> <<canvas.prompt, canvas.research_summary>>,
                    returned |-> file_list]
       IN
       canvas' =
         IF ~file_list.is_list
         THEN [canvas EXCEPT !.pc = "raised", !.exc = "TypeError",
                             !.calls = Append(@, call)]
         ELSE [canvas EXCEPT !.pc = "build", !.file_list = file_list.items,
                             !.next_file = 1, !.files = EmptyDict,
                             !.calls = Append(@, call)]
  /\ UNCHANGED <<ledger_vars, chat_history, chat_call>>

\* step 3, one turn of the loop over file_list: content = generate_file_content(filename,
\* prompt, research_summary, file_list); files[filename] = content
canvas_generate_file ==
  /\ canvas.pc = "build"
  /\ canvas.next_file <= Len(canvas.file_list)
  /\ \E content \in CanvasContents :
       LET filename == canvas.file_list[canvas.next_file] IN
       canvas' = [canvas EXCEPT
                    !.next_file = @ + 1,
                    !.files = SetItem(@, filename, content),
                    !.calls = Append(@, [step |-> "generate",
                                         arg |-> [filename |-> filename,
                                                  prompt |-> canvas.prompt,
                                                  research_summary |-> canvas.research_summary,
                                                  file_list |-> canvas.file_list],
                                         returned |-> content])]
  /\ UNCHANGED <<ledger_vars, chat_history, chat_call>>

\* the flow returning the generated files in place of the analysis' answer
canvas_analyze_returns_generated ==
  /\ canvas.pc = "build"
  /\ canvas.next_file > Len(canvas.file_list)
  /\ \E final_files \in AnalysisResults(canvas.files) :
       canvas' = [canvas EXCEPT
                    !.pc = "done",
                    !.result = [research_summary |-> canvas.research_summary,
                                files |-> canvas.files],
                    !.calls = Append(@, [step |-> "analyze", arg |-> canvas.files,
                                         returned |-> final_files])]
  /\ UNCHANGED <<ledger_vars, chat_history, chat_call>>

\* step 4, after the loop: final_files = analyze_and_fix_code(files), and the return of
\* {"research_summary": research_summary, "files": final_files}
canvas_analyze ==
  /\ canvas.pc = "build"
  /\ canvas.next_file > Len(canvas.file_list)
  /\ \E final_files \in AnalysisResults(canvas.files) :
       canvas' = [canvas EXCEPT
                    !.pc = "done",
                    !.result = [research_summary |-> canvas.research_summary,
                                files |-> final_files],
                    !.calls = Append(@, [step |-> "analyze", arg |-> canvas.files,
                                         returned |-> final_files])]
  /\ UNCHANGED <<ledger_vars, chat_history, chat_call>>

(***************************************************************************)
(* The system.                                                             *)
(***************************************************************************)
Next ==
  \E r \in Reqs :
    \/ add_credits(r)
    \/ grant_credits_from_purchase(r)
    \/ routes_grant_select(r)
    \/ routes_grant_update(r)
    \/ routes_commit(r)
    \/ add_requery(r)
    \/ routes_db_error(r)
    \/ woocommerce_webhook(r)
    \/ service_grant_select(r)
    \/ service_grant_flush(r)
    \/ service_grant_update(r)
    \/ woocommerce_commit(r)
    \/ service_db_error(r)
    \/ get_credit_balance(r)
    \/ register_user(r)
    \/ google_callback(r)
    \/ read_users_me(r)
    \/ me_commit(r)
    \/ me_db_error(r)
    \/ send_chat_message(r)
    \/ initiate_call(r)
    \/ upload_file(r)
    \/ check_and_deduct_credits(r)

Spec == Init /\ [][Next]_vars

\* the statements of request r after its arrival: the handler of a request that is being
\* served runs on, each statement either completing or raising
RequestStep(r) ==
  \/ routes_grant_select(r)
  \/ routes_grant_update(r)
  \/ routes_commit(r)
  \/ add_requery(r)
  \/ routes_db_error(r)
  \/ service_grant_select(r)
  \/ service_grant_flush(r)
  \/ service_grant_update(r)
  \/ woocommerce_commit(r)
  \/ service_db_error(r)
  \/ me_commit(r)
  \/ me_db_error(r)

\* the server keeps executing the handler of every request it has accepted
FairSpec == Spec /\ \A r \in Reqs : WF_vars(RequestStep(r))

\* get_recent_chat_history called on the tables of at most MaxMessages rows
ChatInit ==
  /\ users = InitUsers
  /\ user_credits = InitCredits
  /\ billing_records = {}
  /\ row_lock = [u \in Users |-> 0]
  /\ req = [r \in Reqs |-> IdleReq]
  /\ chat_history \in ChatTables
  /\ chat_call = NoCall
  /\ canvas = IdleCanvas

ChatNext == get_recent_chat_history

ChatSpec == ChatInit /\ [][ChatNext]_vars

\* one run of run_coding_canvas_flow
CanvasNext ==
  \/ canvas_research
  \/ canvas_plan
  \/ canvas_generate_file
  \/ canvas_analyze

CanvasSpec == Init /\ [][CanvasNext]_vars

(***************************************************************************)
(* Properties.                                                             *)
(***************************************************************************)
\* the calls that grant credits, and the debits
IsGrant(r) == req[r].kind \in {"add", "purchase", "woo"}
IsDebit(r) == req[r].kind = "debit"

\* a grant succeeded when its transaction committed; a debit when the call returned
GrantSucceeded(r) == IsGrant(r) /\ req[r].committed
DebitSucceeded(r) == IsDebit(r) /\ req[r].pc = "done" /\ req[r].exc = "none"

\* every call that arrived has committed or failed
Settled == \A r \in Reqs : req[r].pc \in {"idle", "done"}

RECURSIVE SumCredits(_)
SumCredits(S) ==
  IF S = {} THEN 0
  ELSE LET r == CHOOSE x \in S : TRUE IN req[r].credits + SumCredits(S \ {r})

RECURSIVE SumCosts(_)
SumCosts(S) ==
  IF S = {} THEN 0
  ELSE LET r == CHOOSE x \in S : TRUE IN req[r].cost + SumCosts(S \ {r})

RECURSIVE SumCreditsAdded(_)
SumCreditsAdded(B) ==
  IF B = {} THEN 0
  ELSE LET b == CHOOSE x \in B : TRUE IN b.credits_added + SumCreditsAdded(B \ {b})

\* C1: once every call has committed or failed, each account's balance is its initial
\* balance plus the credits of the grants that committed minus the costs of the debits
\* that succeeded (no update is lost, whatever the interleaving).
C1_NoLostUpdate ==
  Settled =>
    \A u \in Users :
      user_credits[u].balance =
        InitCredits[u].balance
        + SumCredits({r \in Reqs : GrantSucceeded(r) /\ req[r].user = u})
        - SumCosts({r \in Reqs : DebitSucceeded(r) /\ req[r].user = u})

\* C1 witness: two grants on the same account, one of which ran its SELECT while the other
\* was in flight, have both committed and every call is over.
C1_Witness ==
  /\ Settled
  /\ \E r1, r2 \in Reqs :
       /\ r1 # r2
       /\ GrantSucceeded(r1) /\ GrantSucceeded(r2)
       /\ req[r1].user = req[r2].user
       /\ req[r1].found = "row" /\ req[r2].found = "row"
       /\ req[r1].overlapped

\* C2: in every committed state every account balance is >= 0, and two debits on one
\* account whose costs together exceed the balance never both succeed.
C2_BalanceNeverNegative ==
  /\ \A u \in Users : user_credits[u].row => user_credits[u].balance >= 0
  /\ \A r1, r2 \in Reqs :
       (r1 # r2 /\ DebitSucceeded(r1) /\ DebitSucceeded(r2) /\ req[r1].user = req[r2].user)
         => req[r1].cost + req[r2].cost <= InitCredits[req[r1].user].balance
              + SumCredits({r \in Reqs : GrantSucceeded(r) /\ req[r].user = req[r1].user})

\* C3: of the grants called with one transaction id at most one changes the ledger: the
\* table never holds two billing records with the same transaction id, and no two grants
\* with the same transaction id both commit.
C3_GrantIdempotent ==
  /\ \A b1, b2 \in billing_records :
       b1.transaction_id = b2.transaction_id => b1 = b2
  /\ \A r1, r2 \in Reqs :
       (r1 # r2 /\ IsGrant(r1) /\ IsGrant(r2) /\ req[r1].txn = req[r2].txn)
         => ~(req[r1].committed /\ req[r2].committed)

\* C4: when the same purchase webhook (valid secret, registered payer, recognized SKU,
\* same order id) was delivered twice and both deliveries were answered 200, the payer's
\* balance rose by the SKU's credits exactly once and exactly one billing record carries
\* the order id.
C4_WebhookExactlyOnce ==
  \A r1, r2 \in Reqs :
    ( /\ r1 # r2
      /\ req[r1].kind \in {"purchase", "woo"} /\ req[r1].kind = req[r2].kind
      /\ req[r1].txn # "none" /\ req[r1].txn = req[r2].txn
      /\ req[r1].user = req[r2].user /\ req[r1].credits = req[r2].credits
      /\ req[r1].pc = "done" /\ req[r1].status = "200"
      /\ req[r2].pc = "done" /\ req[r2].status = "200" )
    => /\ Cardinality({b \in billing_records : b.transaction_id = req[r1].txn}) = 1
       /\ req[r1].committed # req[r2].committed

\* C5: in every committed state the billing records and the balances agree: each
\* account's balance is its initial balance plus the credits_added of its committed
\* billing records, and an account with a billing record has its row. No committed state
\* holds a grant's record without its balance increase, or the increase without the record.
C5_GrantAtomic ==
  \A u \in Users :
    LET mine == {b \in billing_records : b.user_id = u} IN
    /\ user_credits[u].balance = InitCredits[u].balance + SumCreditsAdded(mine)
    /\ mine # {} => user_credits[u].row

\* C5 witness: one grant has committed (its record and its balance are in the tables) and
\* another grant, which had locked the row, was ended by a database error.
C5_Witness ==
  \E r1, r2 \in Reqs :
    /\ GrantSucceeded(r1) /\ req[r1].pc = "done"
    /\ RecordOf(r1) \in billing_records
    /\ IsGrant(r2) /\ req[r2].pc = "done" /\ req[r2].exc = "DBAPIError"
    /\ req[r2].found = "row" /\ ~req[r2].committed

\* the identity the deployment means to exempt from debits (the value that
\* settings.ADMIN_EMAIL is read for); every other account is non-exempt
ExemptIdentity == "b@x"

\* the step in which request r calls check_and_deduct_credits
DebitCall(r) == req[r].pc = "idle" /\ req'[r].kind = "debit"

\* C6: a debit of cost c, 0 <= c <= b, on a non-exempt account with balance b succeeds,
\* stores b - c as the new balance and returns it.
C6_DebitWithinBalance ==
  [][\A r \in Reqs :
       LET u == req'[r].user
           c == req'[r].cost
       IN (DebitCall(r) /\ u # ExemptIdentity /\ user_credits[u].row
             /\ 0 <= c /\ c <= user_credits[u].balance)
          => /\ req'[r].exc = "none"
             /\ user_credits'[u].balance = user_credits[u].balance - c
             /\ req'[r].ret = user_credits[u].balance - c]_vars

\* C7: a debit of cost c > b on a non-exempt account with balance b fails with the
\* insufficient-funds exception (HTTP 402), which reports b as available, and leaves the
\* balance unchanged.
C7_DebitBeyondBalance ==
  [][\A r \in Reqs :
       LET u == req'[r].user
           c == req'[r].cost
       IN (DebitCall(r) /\ u # ExemptIdentity /\ user_credits[u].row
             /\ c > user_credits[u].balance)
          => /\ req'[r].exc = "CreditException"
             /\ req'[r].status = "402"
             /\ req'[r].ret = user_credits[u].balance
             /\ user_credits' = user_credits]_vars

\* C8: a debit by the exempt identity, whatever the cost, returns the current balance
\* without failing, leaves the stored balance unchanged and takes no row lock.
C8_ExemptDebit ==
  [][\A r \in Reqs :
       LET u == req'[r].user IN
       (DebitCall(r) /\ u = ExemptIdentity /\ user_credits[u].row)
       => /\ req'[r].exc = "none"
          /\ req'[r].ret = user_credits[u].balance
          /\ user_credits' = user_credits
          /\ row_lock' = row_lock]_vars

\* C9: a grant that finds no credit row for its (registered) user, and is not ended by a
\* database failure or by losing the race to insert the row, commits: the row then exists
\* and the grant's billing record is in the table. This on every granting path.
C9_GrantAutoHeals ==
  \A r \in Reqs :
    ( /\ IsGrant(r) /\ req[r].pc = "done" /\ req[r].found = "norow"
      /\ req[r].exc \notin {"DBAPIError", "IntegrityError"} )
    => /\ req[r].committed
       /\ user_credits[req[r].user].row
       /\ RecordOf(r) \in billing_records

\* C10: a balance read for an identity that has no credit row answers 200 with balance 0.
C10_BalanceOfMissingRowIsZero ==
  \A r \in Reqs :
    (req[r].kind = "balance" /\ req[r].pc = "done" /\ req[r].found = "norow")
    => req[r].status = "200" /\ req[r].ret = 0

\* a delivery to one of the two purchase webhooks
IsWebhook(r) == req[r].kind \in {"purchase", "woo"}

\* request r has written nothing: it never committed, holds no row and no billing record
\* is its own
WroteNothing(r) ==
  /\ ~req[r].committed
  /\ \A u \in Users : row_lock[u] # r
  /\ \A b \in billing_records : b.id # r

\* C11: a webhook delivery whose secret header is absent or differs from the configured
\* secret is answered 403 at once: the user was not looked up, no credit row was read, and
\* nothing was written.
C11_BadSecretForbidden ==
  \A r \in Reqs :
    (IsWebhook(r) /\ req[r].secret # WORDPRESS_SECRET_KEY)
    => /\ req[r].pc = "done" /\ req[r].status = "403"
       /\ ~req[r].looked_up /\ req[r].user = "none" /\ req[r].found = "unknown"
       /\ WroteNothing(r)

\* C11 witness: /credits/grant_purchase was delivered without the header and the
\* WooCommerce webhook with a wrong secret.
C11_Witness ==
  \E r1, r2 \in Reqs :
    /\ req[r1].kind = "purchase" /\ req[r1].secret = None /\ req[r1].pc = "done"
    /\ req[r2].kind = "woo" /\ req[r2].secret = "wrong" /\ req[r2].pc = "done"

\* C12: a webhook delivery with the valid secret whose payer email belongs to no
\* registered user is answered with not-found (404), and nothing was written.
C12_UnknownPayerNotFound ==
  \A r \in Reqs :
    ( /\ IsWebhook(r) /\ req[r].pc = "done"
      /\ req[r].secret = WORDPRESS_SECRET_KEY
      /\ req[r].looked_up /\ Lower(req[r].email) \notin Users )
    => /\ req[r].status = "404"
       /\ WroteNothing(r)

\* the delivery named a SKU that the catalog of its endpoint does not hold (for the
\* WooCommerce webhook: no item of the order matches a key of its catalog)
UnknownSku(r) ==
  \/ req[r].kind = "purchase" /\ req[r].sku \in PurchaseSkus \ DOMAIN credits_SKU_TO_CREDITS
  \/ req[r].kind = "woo" /\ req[r].sku = None

\* C13: a webhook delivery with the valid secret and a registered payer whose SKU is not
\* in the catalog is answered 200 at once (a sender that retries until success stops), and
\* it wrote no billing record and changed no balance.
C13_UnknownSkuAcknowledged ==
  \A r \in Reqs :
    ( /\ IsWebhook(r) /\ req[r].secret = WORDPRESS_SECRET_KEY
      /\ req[r].user \in Users /\ UnknownSku(r) )
    => /\ req[r].pc = "done" /\ req[r].status = "200" /\ req[r].exc = "none"
       /\ req[r].found = "unknown"
       /\ WroteNothing(r)

\* C13 witness: both webhooks have answered a delivery with an unknown SKU.
C13_Witness ==
  \E r1, r2 \in Reqs :
    /\ req[r1].kind = "purchase" /\ req[r1].sku = "mystery_sku" /\ req[r1].status = "200"
    /\ req[r2].kind = "woo" /\ req[r2].sku = None /\ req[r2].user \in Users
    /\ req[r2].status = "200"

\* the credits that the product catalog gives a SKU (the two SKU_TO_CREDITS tables name
\* disjoint sets of keys)
CatalogCredits(sku) ==
  IF sku \in DOMAIN credits_SKU_TO_CREDITS THEN credits_SKU_TO_CREDITS[sku]
  ELSE nexus_SKU_TO_CREDITS[sku]

\* C14: a delivery to /credits/grant_purchase with the valid secret, a registered payer that has a credit row
\* and a catalog SKU s (such as vylarc_pack_2000, 2000 credits), once it is answered 200,
\* has committed a grant of exactly catalog[s] credits and its billing record, which
\* carries the order's transaction id and catalog[s] as credits_added, is in the table.
C14_FirstDeliveryGrants ==
  \A r \in Reqs :
    ( /\ req[r].kind = "purchase" /\ req[r].pc = "done" /\ req[r].status = "200"
      /\ req[r].secret = WORDPRESS_SECRET_KEY
      /\ req[r].user \in Users /\ user_credits[req[r].user].row
      /\ req[r].sku \in DOMAIN credits_SKU_TO_CREDITS \cup DOMAIN nexus_SKU_TO_CREDITS )
    => /\ req[r].committed
       /\ req[r].credits = CatalogCredits(req[r].sku)
       /\ req[r].txn \in OrderIds
       /\ RecordOf(r) \in billing_records

\* C15: the committed grants of two purchases, one recurring and one not, have billing
\* records with different payment methods.
C15_RecurringTagged ==
  \A r1, r2 \in Reqs :
    ( /\ req[r1].kind = "purchase" /\ req[r2].kind = "purchase"
      /\ req[r1].committed /\ req[r2].committed
      /\ RecordOf(r1) \in billing_records /\ RecordOf(r2) \in billing_records
      /\ req[r1].is_recurring # req[r2].is_recurring )
    => RecordOf(r1).payment_method # RecordOf(r2).payment_method

\* a request to one of the metered feature handlers
IsMetered(r) == req[r].kind \in {"chat", "call", "upload"}

\* C16: a metered feature handler that made its chargeable call to the outside service
\* had called the debit before.
C16_DebitBeforeWork ==
  \A r \in Reqs : (IsMetered(r) /\ req[r].worked) => req[r].debit_called

\* the statement of request r that takes a row of user_credits
TakesRow(r) ==
  \/ routes_grant_select(r)
  \/ service_grant_select(r)
  \/ service_grant_flush(r)

\* C17: operations on one account leave every other account alone. An account none of
\* whose own grants has committed still has its initial row and balance and owns no
\* billing record, whatever was done on the other accounts; and a grant whose own account
\* row is not held by anyone can take its next statement, whatever rows of other accounts
\* are held (the lock is per row, not global).
C17_AccountsIndependent ==
  /\ \A u \in Users :
       (\A r \in Reqs : ~(req[r].committed /\ req[r].user = u))
       => /\ user_credits[u] = InitCredits[u]
          /\ \A b \in billing_records : b.user_id # u
  /\ \A r \in Reqs :
       ( /\ req[r].pc \in {"routes_select", "service_select", "service_flush"}
         /\ row_lock[req[r].user] = 0 )
       => ENABLED TakesRow(r)

\* C17 witness: two requests hold the rows of two different accounts at the same time.
C17_Witness ==
  \E r1, r2 \in Reqs :
    /\ r1 # r2
    /\ row_lock["a@x"] = r1 /\ row_lock["b@x"] = r2
    /\ req[r1].user = "a@x" /\ req[r2].user = "b@x"

\* the transaction of request r is closed: it holds no row and its session has nothing
\* pending or written
TransactionClosed(r) ==
  /\ \A u \in Users : row_lock[u] # r
  /\ ~req[r].pending /\ ~req[r].flushed /\ ~req[r].inserted_row /\ ~req[r].wrote

C19_InsufficientFundsIs402 ==
  [][\A r \in Reqs :
       LET u == req'[r].user IN
       (DebitCall(r) /\ user_credits[u].row /\ req'[r].cost > user_credits[u].balance)
       => req'[r].status = "402"]_vars

\* the outcome by which a caller recognises a missing credit account
AccountNotFound == "CreditException: User credit account not found."

\* C20: a debit, of any cost, for an identity that has no credit row fails with the
\* account-not-found outcome, which differs from the insufficient-funds one; it creates no
\* row and changes no balance.
C20_DebitWithoutAccount ==
  [][\A r \in Reqs :
       LET u == req'[r].user IN
       (DebitCall(r) /\ ~user_credits[u].row)
       => /\ req'[r].exc = AccountNotFound
          /\ user_credits' = user_credits]_vars

\* the table user_credits holds at most one row per identity and none for an identity
\* that is not registered: an identity registered by a registration request has its row,
\* and a transaction that has inserted a credit row holds the only one of its user
OneRowPerIdentity ==
  /\ \A u \in users \ InitUsers : user_credits[u].row
  /\ \A u \in Users \ users : ~user_credits[u].row
  /\ \A r \in Reqs :
       req[r].inserted_row
       => ~user_credits[req[r].user].row /\ row_lock[req[r].user] = r

\* C21: each registered identity owns exactly one account row. A registration, by
\* password or by Google login, that no database failure ended leaves its identity
\* registered with its account row, and no sequence of registration, grant auto-heal and
\* profile-read fallback creates a second row or leaves a newly registered user without
\* one.
C21_OneAccountPerIdentity ==
  /\ OneRowPerIdentity
  /\ \A r \in Reqs :
       ( /\ req[r].kind \in {"register", "google"} /\ req[r].pc = "done"
         /\ req[r].email # "none" /\ req[r].exc # "DBAPIError" )
       => /\ Lower(req[r].email) \in users
          /\ user_credits[Lower(req[r].email)].row

\* C22: billing records are append-only. No step of any operation (grant, webhook,
\* debit, balance read, registration) removes a committed billing record or changes one
\* of its fields: every record of the table is in the table, unchanged, after the step.
C22_BillingAppendOnly == [][billing_records \subseteq billing_records']_vars

\* C22 witness: the table holds the records of two committed grants to one user.
C22_Witness ==
  \E r1, r2 \in Reqs :
    /\ r1 # r2 /\ req[r1].user = req[r2].user
    /\ req[r1].pc = "done" /\ req[r2].pc = "done"
    /\ RecordOf(r1) \in billing_records /\ RecordOf(r2) \in billing_records

\* the rows of the table that a call (user_id, thread_id) asks for
WantedRows(user_id, thread_id) ==
  {i \in DOMAIN chat_history :
     /\ chat_history[i].user_id = user_id
     /\ thread_id = None \/ chat_history[i].thread_id = thread_id}

\* the list ret is the limit most recent of the wanted rows, oldest first, each user or
\* assistant message rendered as {role, content} and none of them left out
IsRecentHistory(ret, wanted, limit) ==
  \E S \in SUBSET wanted :
    /\ Cardinality(S) = (IF limit < Cardinality(wanted) THEN limit ELSE Cardinality(wanted))
    /\ \A i \in S, j \in wanted \ S : chat_history[j].timestamp <= chat_history[i].timestamp
    /\ Len(ret) = Cardinality({i \in S : chat_history[i].role \in {"user", "assistant"}})
    /\ \A n \in DOMAIN ret :
         \E i \in S :
           /\ chat_history[i].role \in {"user", "assistant"}
           /\ ret[n] = [role |-> chat_history[i].role, content |-> chat_history[i].message]
    /\ \A m, n \in DOMAIN ret :
         m < n => /\ ret[m].content # ret[n].content
                  /\ chat_history[ret[m].content].timestamp
                       <= chat_history[ret[n].content].timestamp

\* the calls without a thread_id, whose query did not fail, return the recent history
HistoryWithoutThread ==
  (chat_call.called /\ chat_call.raised = "none")
  => IsRecentHistory(chat_call.returned, WantedRows(chat_call.user_id, None), chat_call.limit)

\* C23: get_recent_chat_history returns the most recent limit messages that the call asks
\* for (the user's; of the thread, when one is given) in chronological order, oldest
\* first, each rendered as {role, content}, with every user and assistant message kept.
\* (A call whose query the database failed is left aside.)
C23_RecentHistoryChronological ==
  (chat_call.called /\ chat_call.raised # "DBAPIError")
  => IsRecentHistory(chat_call.returned,
                     WantedRows(chat_call.user_id, chat_call.thread_id), chat_call.limit)

\* the filenames that the planning step of the flow returned (none before it returned)
PlannedFiles ==
  IF Len(canvas.calls) >= 2 /\ canvas.calls[2].returned.is_list
  THEN canvas.calls[2].returned.items ELSE <<>>

\* C24: run_coding_canvas_flow makes its calls in the order research, planning, one
\* generation per planned filename (in the plan's order, each given the research summary
\* and the plan), analysis; and it returns as research_summary what the research step
\* returned and as files what the analysis step returned, the analysis having been given
\* one entry per planned filename, holding the content generated for it.
C24_CanvasFlowOrder ==
  LET c == canvas.calls
      n == Len(PlannedFiles)
  IN
  /\ \A i \in DOMAIN c :
       /\ i <= n + 3
       /\ i = 1 => c[i].step = "research"
       /\ i = 2 => c[i].step = "plan" /\ c[i].arg = <<c[1].arg, c[1].returned>>
       /\ (3 <= i /\ i <= n + 2) =>
            /\ c[i].step = "generate"
            /\ c[i].arg.filename = PlannedFiles[i - 2]
            /\ c[i].arg.research_summary = c[1].returned
            /\ c[i].arg.file_list = PlannedFiles
       /\ (3 <= i /\ i = n + 3) => c[i].step = "analyze"
  /\ (Len(c) >= 2 /\ ~c[2].returned.is_list) => Len(c) = 2 /\ canvas.pc = "raised"
  /\ canvas.pc = "done" =>
       /\ Len(c) = n + 3
       /\ canvas.result.research_summary = c[1].returned
       /\ canvas.result.files = c[n + 3].returned
       /\ Keys(c[n + 3].arg) = {PlannedFiles[k] : k \in 1..n}
       /\ \A k \in 1..n :
            (\A j \in (k + 1)..n : PlannedFiles[j] # PlannedFiles[k])
            => c[n + 3].arg[PlannedFiles[k]] = c[k + 2].returned

\* C24 witness: the flow has returned after a plan of two different files, and the
\* analysis returned other contents than it was given.
C24_Witness ==
  /\ canvas.pc = "done"
  /\ Len(canvas.file_list) = 2 /\ canvas.file_list[1] # canvas.file_list[2]
  /\ canvas.result.files # canvas.files
  /\ Keys(canvas.result.files) = Keys(canvas.files)


\* C25: a debit that is within the balance, called in a request whose session comes from
\* get_db, is committed when the request ends: the call returns without an exception and
\* the committed row, which every later request reads, then holds the reduced balance.
C25_DebitCommittedAtBoundary ==
  [][\A r \in Reqs :
       LET u == req'[r].user
           c == req'[r].cost
       IN (DebitCall(r) /\ user_credits[u].row /\ 0 < c /\ c <= user_credits[u].balance)
          => /\ req'[r].pc = "done" /\ req'[r].exc = "none"
             /\ user_credits'[u] = [row |-> TRUE, balance |-> user_credits[u].balance - c]]_vars

\* a call of POST /credits/add or POST /credits/grant_purchase that found no credit row
\* for its user and has ended
MissingRowGrant(r) ==
  /\ req[r].kind \in {"add", "purchase"}
  /\ req[r].pc = "done"
  /\ req[r].found = "norow"

\* the ledger holds nothing of the ended call r: r did not commit, holds no lock and its
\* billing record is not in the table
LedgerUntouchedBy(r) ==
  /\ ~req[r].committed
  /\ RecordOf(r) \notin billing_records
  /\ \A u \in Users : row_lock[u] # r

\* the part of C26 about the ledger: such a call leaves no trace in it
MissingRowLeavesLedger ==
  \A r \in Reqs : MissingRowGrant(r) => LedgerUntouchedBy(r)

\* C26: /credits/add and /credits/grant_purchase answer 404 when the user's credit row is
\* missing, and commit no billing record and no balance.
C26_MissingRowNotFound ==
  /\ \A r \in Reqs : MissingRowGrant(r) => req[r].status = "404"
  /\ MissingRowLeavesLedger


\* the grants made through the engine's grant_credits_to_user for user u, those of them
\* that ran their SELECT while u had no credit row, and those that reported success
EngineGrants(u) == {r \in Reqs : req[r].kind = "woo" /\ req[r].user = u /\ req[r].txn # "none"}
Racers(u) == {r \in EngineGrants(u) : req[r].found = "norow"}
ReportedSuccess(u) ==
  {r \in EngineGrants(u) : req[r].pc = "done" /\ req[r].status = "200"}

\* C27: when two (or more) engine grants for one identity both found no credit row, then
\* once every call is over the identity has its row (unless a database failure ended every
\* one of them), the balance is the sum of the credits of the grants that reported
\* success, the table holds exactly the billing records of those grants, one each, and a
\* grant that lost the race to create the row left no billing record.
C27_CreationRace ==
  Settled =>
    \A u \in Users :
      ( /\ Cardinality(Racers(u)) >= 2
        /\ \A r \in Reqs : (IsGrant(r) /\ req[r].user = u) => r \in EngineGrants(u) )
      => /\ (\E r \in Racers(u) : req[r].exc # "DBAPIError") => user_credits[u].row
         /\ user_credits[u].balance = InitCredits[u].balance + SumCredits(ReportedSuccess(u))
         /\ {b \in billing_records : b.user_id = u} = {RecordOf(r) : r \in ReportedSuccess(u)}
         /\ Cardinality({b \in billing_records : b.user_id = u})
              = Cardinality(ReportedSuccess(u))
         /\ \A r \in Racers(u) \ ReportedSuccess(u) :
              /\ ~req[r].committed
              /\ RecordOf(r) \notin billing_records

\* C27 witness: two engine grants for one identity both found no row; one of them reported
\* success, the other lost the race (IntegrityError); every call is over.
C27_Witness ==
  /\ Settled
  /\ \E u \in Users, r1, r2 \in Reqs :
       /\ r1 # r2
       /\ {r1, r2} \subseteq Racers(u)
       /\ r1 \in ReportedSuccess(u)
       /\ req[r2].exc = "IntegrityError"
       /\ user_credits[u] = [row |-> TRUE, balance |-> req[r1].credits]


GrantCommit(r) == IsGrant(r) /\ ~req[r].committed /\ req'[r].committed

\* the part of C29 about the webhooks: a grant of /credits/grant_purchase or of the
\* WooCommerce webhook never lowers the balance
WebhookGrantNeverDecreases ==
  [][\A r \in Reqs :
       (GrantCommit(r) /\ IsWebhook(r)) =>
         user_credits'[req[r].user].balance >= user_credits[req[r].user].balance]_vars

\* C29: a grant that succeeds never lowers the stored balance of its user, whatever
\* credits_added /credits/add was sent and whatever amount a webhook computed.
C29_GrantNeverDecreases ==
  [][\A r \in Reqs :
       GrantCommit(r) =>
         user_credits'[req[r].user].balance >= user_credits[req[r].user].balance]_vars


\* the place of a key in the catalog, and the first catalog key that an item's name
\* contains (None when it contains none)
CatalogPlace(key) == CHOOSE i \in DOMAIN nexus_SKU_KEYS : nexus_SKU_KEYS[i] = key
FirstContainedKey(item) ==
  LET keys == {k \in item.contains : \E i \in DOMAIN nexus_SKU_KEYS : nexus_SKU_KEYS[i] = k}
  IN IF keys = {} THEN None
     ELSE CHOOSE k \in keys : \A other \in keys : CatalogPlace(k) <= CatalogPlace(other)

\* the credits an order is worth: the sum, over its items, of the credits of the item's
\* first contained key times the item's quantity
ItemCredits(item) ==
  IF FirstContainedKey(item) = None THEN 0
  ELSE nexus_SKU_TO_CREDITS[FirstContainedKey(item)] * item.quantity

RECURSIVE OrderCreditsOver(_, _)
OrderCreditsOver(items, I) ==
  IF I = {} THEN 0
  ELSE LET i == CHOOSE x \in I : TRUE IN
       ItemCredits(items[i]) + OrderCreditsOver(items, I \ {i})

OrderCredits(order) == OrderCreditsOver(order.items, DOMAIN order.items)

\* the billing record of a WooCommerce order granted by request r to user u
OrderRecord(r, u, order) ==
  [id |-> r, user_id |-> u, credits_added |-> OrderCredits(order),
   payment_method |-> "WooCommerce", transaction_id |-> "wc_" \o order.order_id]

\* C30: a WooCommerce delivery with the valid secret, event new_order and a registered
\* payer goes on to grant the credits its order is worth, under the transaction id
\* wc_<order id>, when that sum is positive, and ends without a grant when it is not; the
\* commit of the grant adds exactly one billing record, with that amount and that id, and
\* raises the payer's balance by the amount; every other step of a WooCommerce delivery
\* (another event, a sum that is not positive, a failure) changes no billing record and no
\* balance.
C30_WooOrderCredits ==
  [][\A r \in Reqs :
       LET q == req'[r]
           u == q.user
       IN
       (q.kind = "woo" /\ q # req[r]) =>
         /\ ( /\ req[r].pc = "idle"
              /\ q.secret = WORDPRESS_SECRET_KEY
              /\ q.event = "new_order"
              /\ q.email \in WooEmails \ {None}
              /\ Lower(q.email) \in users )
            => IF OrderCredits(q.order) > 0
               THEN /\ q.pc = "service_select"
                    /\ u = Lower(q.email)
                    /\ q.credits = OrderCredits(q.order)
                    /\ q.txn = "wc_" \o q.order.order_id
               ELSE q.pc = "done" /\ q.status = "200" /\ ~q.committed
         /\ IF q.committed /\ ~req[r].committed
            THEN /\ q.secret = WORDPRESS_SECRET_KEY
                 /\ q.event = "new_order"
                 /\ OrderCredits(q.order) > 0
                 /\ OrderRecord(r, u, q.order) \notin billing_records
                 /\ billing_records' = billing_records \cup {OrderRecord(r, u, q.order)}
                 /\ user_credits'[u].row
                 /\ user_credits'[u].balance = user_credits[u].balance + OrderCredits(q.order)
                 /\ \A v \in Users \ {u} : user_credits'[v] = user_credits[v]
            ELSE /\ billing_records' = billing_records
                 /\ user_credits' = user_credits]_vars

\* C30 witness: the grant of an order of two items, one whose name contains two catalog
\* keys, bought twice, and one whose name contains none, is committed: its billing record
\* is in the table and the payer's balance rose by twice the first key's credits.
C30_Witness ==
  \E r \in Reqs :
    /\ req[r].kind = "woo" /\ req[r].pc = "done" /\ req[r].committed
    /\ Len(req[r].order.items) = 2
    /\ Cardinality(req[r].order.items[1].contains) = 2
    /\ OrderRecord(r, req[r].user, req[r].order) \in billing_records
    /\ user_credits[req[r].user].balance
         = InitCredits[req[r].user].balance + 2 * nexus_SKU_TO_CREDITS["vylarc_sub_pro"]

====
